---- MODULE Spec2Model ----
(***************************************************************************)
(* A model of src/main.py: deduplicate(folder, dry_run, assume_continuity) *)
(* with delete() and delete_empty_folders(), run against a small working   *)
(* root.  A generation is named by an integer (the larger, the newer: the  *)
(* code sorts the names descending).  A directory inside a generation is a *)
(* sequence of directory names, a file is a record [dir, stem, ext].       *)
(***************************************************************************)
EXTENDS Integers, Sequences, FiniteSets, TLC

\* ------------------------------------------------------------- bounds
NGen == 3
MaxSize == 2
MaxRuns == 2

Gens == 1..NGen
Sizes == 1..MaxSize

\* ------------------------------------------------- the path universe
DirPaths == {<<>>, <<"d">>}

fA == [dir |-> <<>>, stem |-> "a", ext |-> "jpg"]
fB == [dir |-> <<"d">>, stem |-> "b", ext |-> "JPG"]
fN == [dir |-> <<"d">>, stem |-> "n", ext |-> "bin"]
FilePaths == {fA, fB, fN}

\* The name of an entry of the working root, in parts: a generation is named
\* by its number alone ("2024"), a run log is
\* "deduplication-<seconds>[-dry].log.csv" (main.py:47), and one more regular
\* file, "notes.txt", may lie at the root.
GenName(g) == [word |-> "", num |-> g, dry |-> FALSE, suffix |-> ""]
LogFileName(t, d) ==
    [word |-> "deduplication", num |-> t, dry |-> d, suffix |-> ".log.csv"]
StrayName == [word |-> "notes", num |-> 0, dry |-> FALSE, suffix |-> ".txt"]

\* main.py:7-9
DEFAULT_EXTENSIONS ==
    {"jpg", "jpeg", "png", "tif", "bmp", "webp", "gif", "mp4", "mov", "txt",
     "md", "pdf", "docx", "doc", "xlsx", "ods", "odt", "zip", "pptx", "apk",
     "enc", "exe", "mp3", "wav", "opus", "m4a", "ipynb", "json", "csv", "tsv",
     "dic", "amr"}

\* glob(..., case_sensitive=False): the extension is compared case-folded.
Lower(ext) ==
    CASE ext = "JPG" -> "jpg"
      [] ext = "BIN" -> "bin"
      [] OTHER -> ext

VARIABLES
    dirs,               \* dirs[g]: the directories of generation g ({} = g is gone)
    files,              \* files[g]: the files of generation g, file |-> its stat
    rootFiles,          \* regular files at the working root: name |-> rows on disk
    now,                \* the clock, in seconds
    pc,                 \* the position of the running deduplicate call
    dry_run,
    assume_continuity,
    master_backup,
    older_backups,
    master_files,       \* the candidates the lazy glob has not yielded yet
    file,               \* the candidate of the outer loop
    bi,                 \* the index of the inner loop in older_backups
    master_stats,
    alt_stats,
    bytes_freed,
    logName,            \* the name of the open run log
    logBuf,             \* rows written to the open log and not yet on disk
    run                 \* the history of the runs started: what each did

vars == <<dirs, files, rootFiles, now, pc, dry_run, assume_continuity,
          master_backup, older_backups, master_files, file, bi,
          master_stats, alt_stats,
          bytes_freed, logName, logBuf, run>>

\* ------------------------------------------------- the filesystem
NoStats == [st_size |-> 0, st_ctime |-> 0]

Parent(d) == SubSeq(d, 1, Len(d) - 1)

\* Path.exists() and Path.stat() of <generation g>/<file f>
Exists(g, f) == f \in DOMAIN files[g]
Stat(g, f) == files[g][f]

\* h with key k removed (a file unlinked)
Without(h, k) == [x \in DOMAIN h \ {k} |-> h[x]]
\* h with key k set to v (a file created or truncated)
With(h, k, v) == [x \in DOMAIN h \cup {k} |-> IF x = k THEN v ELSE h[x]]

\* ------------------------------------------- main.py:16-18, 38-39
\* folder.iterdir(): the generations that exist and the regular files
RootEntries ==
    {GenName(g) : g \in {h \in Gens : dirs[h] # {}}} \cup DOMAIN rootFiles

IsDir(n) == n.word = "" /\ n.num \in Gens /\ dirs[n.num] # {}

EndsWithLogCsv(n) == n.suffix = ".log.csv"

\* the order of the names as strings: digits sort before letters,
\* "deduplication-..." before "notes.txt", "-dry.log.csv" before ".log.csv"
WordRank(w) == CASE w = "" -> 0 [] w = "deduplication" -> 1 [] OTHER -> 2
NameLess(a, b) ==
    \/ WordRank(a.word) < WordRank(b.word)
    \/ /\ WordRank(a.word) = WordRank(b.word)
       /\ \/ a.num < b.num
          \/ a.num = b.num /\ a.dry /\ ~b.dry

RECURSIVE SortedDesc(_)
SortedDesc(S) ==
    IF S = {} THEN <<>>
    ELSE LET top == CHOOSE n \in S : \A m \in S \ {n} : NameLess(m, n)
         IN  <<top>> \o SortedDesc(S \ {top})

\* a faulty variant: the filter of line 17 left out
SelectNotLog_all(s) == s

SelectNotLog(s) == SelectSeq(s, LAMBDA n : ~EndsWithLogCsv(n))

Children == SelectNotLog(SortedDesc(RootEntries))

AllDirs(children) == \A i \in 1..Len(children) : IsDir(children[i])

\* ------------------------------------------------ main.py:41-43
\* master_backup.glob("**/*." + ex, case_sensitive=False) over the allow-list,
\* relative to the master: the files of the master whose extension, folded,
\* is in DEFAULT_EXTENSIONS.  (No directory of the path universe carries a
\* file extension, so the glob yields files only.)
Glob(m) == {f \in DOMAIN files[m] : Lower(f.ext) \in DEFAULT_EXTENSIONS}

\* ------------------------------------------------ main.py:103-120
\* root.walk(top_down=False) lists every directory's entries on the way down
\* and yields it after its subdirectories: the deepest directories first.
\* a faulty variant: the walk top down (top_down=True): parents before children
RECURSIVE BottomUp_topdown(_)
BottomUp_topdown(D) ==
    IF D = {} THEN <<>>
    ELSE LET d == CHOOSE x \in D : \A y \in D : Len(x) <= Len(y)
         IN  <<d>> \o BottomUp_topdown(D \ {d})

RECURSIVE BottomUp(_)
BottomUp(D) ==
    IF D = {} THEN <<>>
    ELSE LET d == CHOOSE x \in D : \A y \in D : Len(y) <= Len(x)
         IN  <<d>> \o BottomUp(D \ {d})

\* a faulty variant: still_has_subdirs = bool(subdirs), the set deleted ignored
Eligible_leafOnly(listed, fs, st, current_dir) ==
    /\ {c \in listed : c # <<>> /\ Parent(c) = current_dir} = {}
    /\ {f \in DOMAIN fs : f.dir = current_dir} = {}

\* a faulty variant: the test "not any(files)" of line 113 left out
Eligible_nofiles(listed, fs, st, current_dir) ==
    \A subdir \in {c \in listed : c # <<>> /\ Parent(c) = current_dir} :
        subdir \in st.deleted

\* The body of the loop for current_dir: listed is the tree as the walk
\* listed it, st the tree on disk, the set deleted and the assertion's verdict.
Eligible(listed, fs, st, current_dir) ==
    /\ \A subdir \in {c \in listed : c # <<>> /\ Parent(c) = current_dir} :
           subdir \in st.deleted
    /\ {f \in DOMAIN fs : f.dir = current_dir} = {}

EmptyOnDisk(fs, st, current_dir) ==
    /\ {c \in st.dirs : c # <<>> /\ Parent(c) = current_dir} = {}
    /\ {f \in DOMAIN fs : f.dir = current_dir} = {}

VisitDir(listed, fs, st, current_dir) ==
    IF ~st.ok \/ ~Eligible(listed, fs, st, current_dir) THEN st
    ELSE IF ~EmptyOnDisk(fs, st, current_dir) THEN [st EXCEPT !.ok = FALSE]
    ELSE [st EXCEPT !.dirs = @ \ {current_dir},
                    !.deleted = @ \cup {current_dir},
                    !.order = Append(@, current_dir)]

RECURSIVE WalkDirs(_, _, _, _)
WalkDirs(listed, fs, st, todo) ==
    IF todo = <<>> THEN st
    ELSE WalkDirs(listed, fs, VisitDir(listed, fs, st, Head(todo)), Tail(todo))

\* a faulty variant: the walk leaves out the root it was given
delete_empty_folders_keepRoot(ds, fs) ==
    WalkDirs(ds, fs, [dirs |-> ds, deleted |-> {}, order |-> <<>>, ok |-> TRUE],
             BottomUp(ds \ {<<>>}))

\* delete_empty_folders(root) on a generation with directories ds and files
\* fs: the directories left, the set returned, the order of the rmdir calls
\* and whether the emptiness assertion held.
delete_empty_folders(ds, fs) ==
    WalkDirs(ds, fs, [dirs |-> ds, deleted |-> {}, order |-> <<>>, ok |-> TRUE],
             BottomUp(ds))

\* ------------------------------------------------ main.py:123-129
\* a faulty variant: delete() without the dry_run test
delete_always(fs, g, f, dry) == [fs EXCEPT ![g] = Without(fs[g], f)]

\* delete(file, dry_run) of <generation g>/<file f> on the files fs
delete(fs, g, f, dry) ==
    IF dry THEN fs ELSE [fs EXCEPT ![g] = Without(fs[g], f)]

\* ------------------------------------------------ main.py:49, 81-82
Header ==
    [kind |-> "header", text |-> "alt_file;master_file;alt.st_ctime;master.st_ctime"]

\* a faulty variant: the row names the master's file in the alt_file column
Row_master(g, m, f, alt, mst) ==
    [kind |-> "row",
     alt_file |-> [gen |-> m, file |-> f],
     master_file |-> [gen |-> m, file |-> f],
     alt_ctime |-> alt.st_ctime,
     master_ctime |-> mst.st_ctime]

\* the row for alt_file = g/f against master_file = m/f, both relative to folder
Row(g, m, f, alt, mst) ==
    [kind |-> "row",
     alt_file |-> [gen |-> g, file |-> f],
     master_file |-> [gen |-> m, file |-> f],
     alt_ctime |-> alt.st_ctime,
     master_ctime |-> mst.st_ctime]

\* ------------------------------------------------------ the history
Cur == Len(run)

NewRun(d, c) ==
    [dry |-> d, cont |-> c, status |-> "running",
     dirs0 |-> dirs, files0 |-> files,        \* the tree the run started on
     root0 |-> rootFiles,
     log |-> LogFileName(now, d),              \* the run log's name
     master |-> 0, older |-> <<>>,
     examined |-> {},                          \* exists() was called on these
     statted |-> {},                           \* stat() was called on these
     lines |-> <<>>,                           \* write() calls, in order
     called |-> {},                            \* delete() returned for these
     deleted |-> {},                           \* unlink() returned for these
     reclaimed |-> <<>>,                       \* delete_empty_folders calls
     returned |-> <<>>,                        \* the set each of them returned
     rmdirs |-> <<>>,                          \* rmdir() calls, in order
     removed |-> {},                           \* rmdir() returned for these
     freed |-> 0]                              \* the total printed

Alt(g, f) == [gen |-> g, file |-> f]

\* ------------------------------------------------------------ Init
\* A file of generation g of size s: every file of a snapshot carries the
\* change time of the snapshot.
Meta(g, s) == [st_size |-> s, st_ctime |-> g]

\* the files a generation may start with: a.jpg of any size, d/b.JPG and
\* d/n.bin of size 1
SizeMaps ==
    {h \in UNION {[D -> Sizes] : D \in SUBSET FilePaths} :
        \A f \in DOMAIN h : f # fA => h[f] = 1}

\* the directories a generation with the files h may start with: those of its
\* files, and d may exist empty
DirSets(h) ==
    LET need == {<<>>} \cup {f.dir : f \in DOMAIN h}
    IN  {need, need \cup {<<"d">>}}

\* the master holds a.jpg of the largest size and d/n.bin
MasterMaps == {h \in SizeMaps : {fA, fN} \subseteq DOMAIN h /\ h[fA] = MaxSize}

Init ==
    /\ \E hs \in [Gens -> SizeMaps] :
          /\ hs[NGen] \in MasterMaps
          /\ files = [g \in Gens |-> [f \in DOMAIN hs[g] |-> Meta(g, hs[g][f])]]
          /\ \E ds \in [Gens -> SUBSET DirPaths] :
                /\ \A g \in Gens : ds[g] \in DirSets(hs[g])
                /\ dirs = ds
    /\ rootFiles \in {[n \in {} |-> <<>>], [n \in {StrayName} |-> <<>>]}
    /\ now = 0
    /\ pc = "idle"
    /\ dry_run = TRUE
    /\ assume_continuity = TRUE
    /\ master_backup = 0
    /\ older_backups = <<>>
    /\ master_files = {}
    /\ file = fA
    /\ bi = 1
    /\ master_stats = NoStats
    /\ alt_stats = NoStats
    /\ bytes_freed = 0
    /\ logName = StrayName
    /\ logBuf = <<>>
    /\ run = <<>>

\* the locals of a call that has returned or died
Forget ==
    /\ dry_run' = TRUE
    /\ assume_continuity' = TRUE
    /\ master_backup' = 0
    /\ older_backups' = <<>>
    /\ master_files' = {}
    /\ file' = fA
    /\ bi' = 1
    /\ master_stats' = NoStats
    /\ alt_stats' = NoStats
    /\ bytes_freed' = 0
    /\ logName' = StrayName
    /\ logBuf' = <<>>

\* ------------------------------------------------------- deduplicate
\* a faulty variant: older_backups = children[0:]: the master scanned as an older backup
OlderOf_all(children) == [i \in 1..Len(children) |-> children[i].num]

\* main.py:38-39
MasterOf(children) == children[1].num
OlderOf(children) == [i \in 1..(Len(children) - 1) |-> children[i + 1].num]

\* a faulty variant: the log opened before the assertion of line 18
StartRun_logFirst(d, c) ==
    /\ pc = "idle"
    /\ Len(run) < MaxRuns
    /\ LET children == Children IN
       IF children = <<>> \/ ~AllDirs(children)
       THEN /\ run' = Append(run, [NewRun(d, c) EXCEPT !.status = "failed"])
            /\ rootFiles' = With(rootFiles, LogFileName(now, d), <<>>)
            /\ UNCHANGED <<dirs, files, now, pc, dry_run,
                           assume_continuity, master_backup, older_backups,
                           master_files, file, bi, master_stats, alt_stats,
                           bytes_freed, logName, logBuf>>
       ELSE /\ dry_run' = d
            /\ assume_continuity' = c
            /\ master_backup' = MasterOf(children)
            /\ older_backups' = OlderOf(children)
            /\ master_files' = Glob(MasterOf(children))
            /\ bytes_freed' = 0
            /\ logName' = LogFileName(now, d)
            /\ rootFiles' = With(rootFiles, LogFileName(now, d), <<>>)
            /\ logBuf' = <<Header>>
            /\ run' = Append(run, [NewRun(d, c) EXCEPT
                                     !.master = MasterOf(children),
                                     !.older = OlderOf(children),
                                     !.lines = <<Header>>])
            /\ pc' = "files"
            /\ UNCHANGED <<dirs, files, now, file, bi, master_stats, alt_stats>>

\* main.py:12-49: the call up to the header row.  The assertion of line 18
\* (or, with no child at all, the index of line 38) ends the call before the
\* log is opened.  open(.., "w") creates or truncates the log at once; the
\* header goes to the buffer of the file object.
StartRun(d, c) ==
    /\ pc = "idle"
    /\ Len(run) < MaxRuns
    /\ LET children == Children IN
       IF children = <<>> \/ ~AllDirs(children)
       THEN /\ run' = Append(run, [NewRun(d, c) EXCEPT !.status = "failed"])
            /\ UNCHANGED <<dirs, files, rootFiles, now, pc, dry_run,
                           assume_continuity, master_backup, older_backups,
                           master_files, file, bi, master_stats, alt_stats,
                           bytes_freed, logName, logBuf>>
       ELSE LET t == now IN                     \* main.py:46
            /\ dry_run' = d
            /\ assume_continuity' = c
            /\ master_backup' = MasterOf(children)
            /\ older_backups' = OlderOf(children)
            /\ master_files' = Glob(MasterOf(children))
            /\ bytes_freed' = 0
            /\ logName' = LogFileName(t, d)
            /\ rootFiles' = With(rootFiles, LogFileName(t, d), <<>>)
            /\ logBuf' = <<Header>>
            /\ run' = Append(run, [NewRun(d, c) EXCEPT
                                     !.master = MasterOf(children),
                                     !.older = OlderOf(children),
                                     !.lines = <<Header>>])
            /\ pc' = "files"
            /\ UNCHANGED <<dirs, files, now, file, bi, master_stats, alt_stats>>

\* main.py:50-54: the glob yields the next candidate, in no fixed order
NextFile ==
    /\ pc = "files"
    /\ \E f \in master_files :
          /\ file' = f
          /\ master_files' = master_files \ {f}
          /\ master_stats' = Stat(master_backup, f)
    /\ bi' = 1
    /\ pc' = IF older_backups = <<>> THEN "files" ELSE "scan"
    /\ UNCHANGED <<dirs, files, rootFiles, now, dry_run, assume_continuity,
                   master_backup, older_backups, alt_stats, bytes_freed,
                   logName, logBuf, run>>

\* a faulty variant: the size comparison of line 71 left out
Verdict_nosize(g, f, size, continuity) ==
    IF ~Exists(g, f)
    THEN (IF continuity THEN "break" ELSE "continue")
    ELSE "duplicate"

\* a faulty variant: a size mismatch skips the backup even under continuity (line 75: continue)
Verdict_mismatchContinue(g, f, size, continuity) ==
    IF ~Exists(g, f)
    THEN (IF continuity THEN "break" ELSE "continue")
    ELSE IF Stat(g, f).st_size # size
    THEN "continue"
    ELSE "duplicate"

\* a faulty variant: an absent file ends the scan without continuity too (line 68: break)
Verdict_absentBreak(g, f, size, continuity) ==
    IF ~Exists(g, f)
    THEN "break"
    ELSE IF Stat(g, f).st_size # size
    THEN (IF continuity THEN "break" ELSE "continue")
    ELSE "duplicate"

\* a faulty variant: an absent file skips the backup even under continuity (line 64: continue)
Verdict_absentContinue(g, f, size, continuity) ==
    IF ~Exists(g, f)
    THEN "continue"
    ELSE IF Stat(g, f).st_size # size
    THEN (IF continuity THEN "break" ELSE "continue")
    ELSE "duplicate"

\* main.py:55-79: what the inner loop does with backup g for candidate f
Verdict(g, f, size, continuity) ==
    IF ~Exists(g, f)
    THEN (IF continuity THEN "break" ELSE "continue")
    ELSE IF Stat(g, f).st_size # size
    THEN (IF continuity THEN "break" ELSE "continue")
    ELSE "duplicate"

\* the inner loop moves to the next backup, or ends
Advance ==
    IF bi + 1 > Len(older_backups)
    THEN pc' = "files" /\ bi' = 1
    ELSE pc' = "scan" /\ bi' = bi + 1

\* main.py:55-79: one iteration of the inner loop up to its decision
Examine ==
    /\ pc = "scan"
    /\ LET backup == older_backups[bi]
           v == Verdict(backup, file, master_stats.st_size, assume_continuity)
       IN  /\ alt_stats' = IF Exists(backup, file) THEN Stat(backup, file)
                                                  ELSE alt_stats
           /\ run' = [run EXCEPT
                        ![Cur].examined = @ \cup {Alt(backup, file)},
                        ![Cur].statted = IF Exists(backup, file)
                                         THEN @ \cup {Alt(backup, file)} ELSE @]
           /\ CASE v = "duplicate" -> pc' = "write" /\ bi' = bi
                [] v = "break" -> pc' = "files" /\ bi' = 1
                [] OTHER -> Advance
    /\ UNCHANGED <<dirs, files, rootFiles, now, dry_run, assume_continuity,
                   master_backup, older_backups, master_files, file,
                   master_stats, bytes_freed, logName, logBuf>>

\* a faulty variant: the header written with every row
WriteRow_header ==
    /\ pc = "write"
    /\ LET row == Row(older_backups[bi], master_backup, file, alt_stats, master_stats)
       IN  /\ logBuf' = logBuf \o <<Header, row>>
           /\ run' = [run EXCEPT ![Cur].lines = @ \o <<Header, row>>]
    /\ pc' = "delete"
    /\ UNCHANGED <<dirs, files, rootFiles, now, dry_run, assume_continuity,
                   master_backup, older_backups, master_files, file, bi,
                   master_stats, alt_stats, bytes_freed, logName>>

\* main.py:81-82
WriteRow ==
    /\ pc = "write"
    /\ LET row == Row(older_backups[bi], master_backup, file, alt_stats, master_stats)
       IN  /\ logBuf' = Append(logBuf, row)
           /\ run' = [run EXCEPT ![Cur].lines = Append(@, row)]
    /\ pc' = "delete"
    /\ UNCHANGED <<dirs, files, rootFiles, now, dry_run, assume_continuity,
                   master_backup, older_backups, master_files, file, bi,
                   master_stats, alt_stats, bytes_freed, logName>>

\* main.py:83
CallDelete ==
    /\ pc = "delete"
    /\ files' = delete(files, older_backups[bi], file, dry_run)
    /\ run' = [run EXCEPT
                 ![Cur].called = @ \cup {Alt(older_backups[bi], file)},
                 ![Cur].deleted =
                     @ \cup {a \in {Alt(older_backups[bi], file)} :
                                a.file \notin DOMAIN files'[a.gen]}]
    /\ pc' = "account"
    /\ UNCHANGED <<dirs, rootFiles, now, dry_run, assume_continuity,
                   master_backup, older_backups, master_files, file, bi,
                   master_stats, alt_stats, bytes_freed, logName, logBuf>>

\* a faulty variant: the files counted, not their bytes
Account_count ==
    /\ pc = "account"
    /\ bytes_freed' = bytes_freed + 1
    /\ Advance
    /\ UNCHANGED <<dirs, files, rootFiles, now, dry_run, assume_continuity,
                   master_backup, older_backups, master_files, file,
                   master_stats, alt_stats, logName, logBuf, run>>

\* main.py:84
Account ==
    /\ pc = "account"
    /\ bytes_freed' = bytes_freed + alt_stats.st_size
    /\ Advance
    /\ UNCHANGED <<dirs, files, rootFiles, now, dry_run, assume_continuity,
                   master_backup, older_backups, master_files, file,
                   master_stats, alt_stats, logName, logBuf, run>>

\* a faulty variant: the reclaimer run in dry-run mode too (line 87 left out)
CloseLog_reclaim ==
    /\ pc = "files"
    /\ master_files = {}
    /\ rootFiles' = [rootFiles EXCEPT ![logName] = @ \o logBuf]
    /\ logBuf' = <<>>
    /\ bi' = 1
    /\ pc' = IF older_backups = <<>> THEN "print" ELSE "reclaim"
    /\ UNCHANGED <<dirs, files, now, dry_run, assume_continuity,
                   master_backup, older_backups, master_files, file,
                   master_stats, alt_stats, bytes_freed, logName, run>>

\* main.py:47-48, 87-89: the loop is over, the with block closes the log (the
\* buffer reaches the disk), and a real run goes on to the reclaimer
CloseLog ==
    /\ pc = "files"
    /\ master_files = {}
    /\ rootFiles' = [rootFiles EXCEPT ![logName] = @ \o logBuf]
    /\ logBuf' = <<>>
    /\ bi' = 1
    /\ pc' = IF dry_run \/ older_backups = <<>> THEN "print" ELSE "reclaim"
    /\ UNCHANGED <<dirs, files, now, dry_run, assume_continuity,
                   master_backup, older_backups, master_files, file,
                   master_stats, alt_stats, bytes_freed, logName, run>>

\* main.py:88-89: delete_empty_folders(backup) for the next older backup; a
\* failed assertion ends the call
Reclaim ==
    /\ pc = "reclaim"
    /\ LET backup == older_backups[bi]
           r == delete_empty_folders(dirs[backup], files[backup])
       IN  /\ dirs' = [dirs EXCEPT ![backup] = r.dirs]
           /\ run' = [run EXCEPT
                        ![Cur].reclaimed = Append(@, backup),
                        ![Cur].returned =
                            IF r.ok THEN Append(@, r.deleted) ELSE @,
                        ![Cur].rmdirs =
                            @ \o [k \in DOMAIN r.order |->
                                     [gen |-> backup, dir |-> r.order[k]]],
                        ![Cur].removed =
                            @ \cup {[gen |-> backup, dir |-> x] : x \in r.deleted},
                        ![Cur].status = IF r.ok THEN @ ELSE "failed"]
           /\ IF ~r.ok
              THEN pc' = "idle" /\ Forget
              ELSE /\ IF bi + 1 > Len(older_backups)
                      THEN pc' = "print" /\ bi' = 1
                      ELSE pc' = "reclaim" /\ bi' = bi + 1
                   /\ UNCHANGED <<dry_run, assume_continuity, master_backup,
                                  older_backups, master_files, file,
                                  master_stats, alt_stats, bytes_freed,
                                  logName, logBuf>>
    /\ UNCHANGED <<files, rootFiles, now>>

\* main.py:91: the total is printed and the call returns; it took less than
\* a second, or more
Report ==
    /\ pc = "print"
    /\ run' = [run EXCEPT ![Cur].freed = bytes_freed, ![Cur].status = "done"]
    /\ pc' = "idle"
    /\ now' \in {now, now + 1}
    /\ Forget
    /\ UNCHANGED <<dirs, files, rootFiles>>

\* The process is killed in the middle of a call.  main.py:49 and 81 write
\* through the buffer of the file object and nothing flushes it before the
\* with block ends: of the lines still in the buffer, any prefix may have
\* reached the disk.  No call follows a kill here.
Crash ==
    /\ pc \notin {"idle", "crashed"}
    /\ \E k \in 0..Len(logBuf) :
          rootFiles' = [rootFiles EXCEPT ![logName] = @ \o SubSeq(logBuf, 1, k)]
    /\ run' = [run EXCEPT ![Cur].status = "crashed"]
    /\ pc' = "crashed"
    /\ Forget
    /\ UNCHANGED <<dirs, files, now>>

Next ==
    \/ \E d \in BOOLEAN, c \in BOOLEAN : StartRun(d, c)
    \/ NextFile
    \/ Examine
    \/ WriteRow
    \/ CallDelete
    \/ Account
    \/ CloseLog
    \/ Reclaim
    \/ Report
    \/ Crash

Spec == Init /\ [][Next]_vars

\* ------------------------------------------- a killed run, run again
\* After a kill the user starts the program again, at once or later.
Restart ==
    /\ pc = "crashed"
    /\ Len(run) < MaxRuns
    /\ pc' = "idle"
    /\ now' \in {now, now + 1}
    /\ UNCHANGED <<dirs, files, rootFiles, dry_run, assume_continuity,
                   master_backup, older_backups, master_files, file, bi,
                   master_stats, alt_stats, bytes_freed, logName, logBuf, run>>

\* A real run that may be killed, and the same command given again after
\* the kill.
StartReal == \E c \in BOOLEAN : StartRun(FALSE, c) /\ (run # <<>> => c = run[1].cont)
CrashFirst == Crash /\ Cur = 1

NextResume ==
    \/ StartReal
    \/ NextFile
    \/ Examine
    \/ WriteRow
    \/ CallDelete
    \/ Account
    \/ CloseLog
    \/ Reclaim
    \/ Report
    \/ CrashFirst
    \/ Restart

InitResume == Init /\ rootFiles = [n \in {} |-> <<>>]

SpecResume == InitResume /\ [][NextResume]_vars

\* ------------------------------------------- deeper trees, one real run
\* d/e/c.png, two levels down; h is a directory no file lies in
fE == [dir |-> <<"d", "e">>, stem |-> "c", ext |-> "png"]
DeepDirPaths == {<<>>, <<"d">>, <<"d", "e">>, <<"h">>}

\* the trees an older generation may start with: directories closed under
\* parents, any of a.jpg, d/b.JPG and d/e/c.png of any size where its
\* directory exists
DeepTrees ==
    {t \in [ds : SUBSET DeepDirPaths,
            fs : UNION {[D -> Sizes] : D \in SUBSET {fA, fB, fE}}] :
        /\ <<>> \in t.ds
        /\ \A x \in t.ds : x # <<>> => Parent(x) \in t.ds
        /\ \A f \in DOMAIN t.fs : f.dir \in t.ds}

\* the master holds the three candidates and d/n.bin; the generation before
\* it is any deep tree; the generations before that hold a.jpg of any size,
\* or nothing
InitWalk ==
    /\ \E t \in DeepTrees, old \in [1..(NGen - 2) -> 0..MaxSize] :
          /\ dirs = [g \in Gens |->
                        IF g = NGen THEN {<<>>, <<"d">>, <<"d", "e">>}
                        ELSE IF g = NGen - 1 THEN t.ds
                        ELSE {<<>>}]
          /\ files = [g \in Gens |->
                         IF g = NGen
                         THEN [f \in {fA, fB, fE, fN} |->
                                 Meta(g, IF f = fA THEN MaxSize ELSE 1)]
                         ELSE IF g = NGen - 1
                         THEN [f \in DOMAIN t.fs |-> Meta(g, t.fs[f])]
                         ELSE [f \in {x \in {fA} : old[g] > 0} |-> Meta(g, old[g])]]
    /\ rootFiles = [n \in {} |-> <<>>]
    /\ now = 0
    /\ pc = "idle"
    /\ dry_run = TRUE
    /\ assume_continuity = TRUE
    /\ master_backup = 0
    /\ older_backups = <<>>
    /\ master_files = {}
    /\ file = fA
    /\ bi = 1
    /\ master_stats = NoStats
    /\ alt_stats = NoStats
    /\ bytes_freed = 0
    /\ logName = StrayName
    /\ logBuf = <<>>
    /\ run = <<>>

StartOnce == run = <<>> /\ \E c \in BOOLEAN : StartRun(FALSE, c)

NextWalk ==
    \/ StartOnce
    \/ NextFile
    \/ Examine
    \/ WriteRow
    \/ CallDelete
    \/ Account
    \/ CloseLog
    \/ Reclaim
    \/ Report

SpecWalk == InitWalk /\ [][NextWalk]_vars

\* =================================================== the claims
\* What a run of the history r found at its start.
Range(q) == {q[i] : i \in DOMAIN q}
Started(r) == r.master # 0
Candidates(r) ==
    {f \in DOMAIN r.files0[r.master] : Lower(f.ext) \in DEFAULT_EXTENSIONS}
DupAtStart(r, g, f) ==
    /\ f \in Candidates(r)
    /\ f \in DOMAIN r.files0[g]
    /\ r.files0[g][f].st_size = r.files0[r.master][f].st_size
RowsOf(r) == {r.lines[j] : j \in {k \in DOMAIN r.lines : r.lines[k].kind = "row"}}
Logged(r) == {l.alt_file : l \in RowsOf(r)}
NewestGen(ds) ==
    CHOOSE g \in Gens : ds[g] # {} /\ \A h \in Gens : ds[h] # {} => h <= g

RECURSIVE SizeSum(_, _)
SizeSum(r, A) ==
    IF A = {} THEN 0
    ELSE LET a == CHOOSE x \in A : TRUE
         IN  r.files0[a.gen][a.file].st_size + SizeSum(r, A \ {a})

\* the older backups, nearest first, that hold f with the master's size
\* without a gap
LongestRun(r, f) ==
    LET ks == {k \in 0..Len(r.older) :
                 \A m \in 1..k : DupAtStart(r, r.older[m], f)}
        k == CHOOSE x \in ks : \A y \in ks : y <= x
    IN  {r.older[m] : m \in 1..k}

\* C1: the master of a run is the newest generation; its directories and its
\* files (size and change time) stay what they were when the run started,
\* and no unlink and no rmdir of the run names a path under it.
C1_MasterInvariance ==
    \A i \in DOMAIN run :
        LET r == run[i] IN
        Started(r) =>
            /\ r.master = NewestGen(r.dirs0)
            /\ dirs[r.master] = r.dirs0[r.master]
            /\ files[r.master] = r.files0[r.master]
            /\ \A a \in r.deleted : a.gen # r.master
            /\ \A x \in r.removed : x.gen # r.master

C1_Witness ==
    \E i \in DOMAIN run :
        /\ run[i].status = "done" /\ ~run[i].dry
        /\ run[i].deleted # {} /\ run[i].removed # {}

\* C2: whatever a run logs or deletes is in an older backup (position >= 1)
\* and was, at the start, a candidate of the master present there with the
\* master's size; every other file of the older backups is still there,
\* unchanged, while the run is the last one; the total a completed run
\* prints is the sum of the sizes of the files it logged.
C2_OnlyDuplicatesDeleted ==
    \A i \in DOMAIN run :
        LET r == run[i] IN
        /\ \A a \in r.deleted \cup Logged(r) :
              /\ a.gen \in Range(r.older)
              /\ a.gen # r.master
              /\ DupAtStart(r, a.gen, a.file)
        /\ i = Cur =>
              \A g \in Range(r.older) : \A f \in DOMAIN r.files0[g] :
                  ~DupAtStart(r, g, f) =>
                      f \in DOMAIN files[g] /\ files[g][f] = r.files0[g][f]
        /\ r.status = "done" => r.freed = SizeSum(r, Logged(r))

C2_Witness ==
    \E i \in DOMAIN run :
        LET r == run[i] IN
        /\ r.status = "done" /\ ~r.dry /\ r.deleted # {}
        /\ \E g \in Range(r.older) : \E f \in DOMAIN r.files0[g] :
              /\ Lower(f.ext) \in DEFAULT_EXTENSIONS
              /\ f \notin DOMAIN r.files0[r.master]
        /\ \E g \in Range(r.older) : \E f \in DOMAIN r.files0[g] :
              /\ f \in Candidates(r)
              /\ r.files0[g][f].st_size # r.files0[r.master][f].st_size

\* C3: a step that removes a file from a generation finds the row naming
\* that file already written by the running call, and every file a run has
\* deleted has a row among the lines the run wrote.
C3_LogBeforeDelete ==
    /\ [](\A i \in DOMAIN run : run[i].deleted \subseteq Logged(run[i]))
    /\ [][\A g \in Gens : \A f \in DOMAIN files[g] :
             f \notin DOMAIN files'[g] =>
                 run # <<>> /\ Alt(g, f) \in Logged(run[Cur])]_vars

C3_Witness ==
    /\ pc = "account"
    /\ Alt(older_backups[bi], file) \in run[Cur].deleted

\* C4: when a run was killed, the log on disk has a row for every file the
\* run had deleted.
C4_CrashLogComplete ==
    \A i \in DOMAIN run :
        LET r == run[i] IN
        r.status = "crashed" =>
            \A a \in r.deleted :
                \E j \in DOMAIN rootFiles[r.log] :
                    /\ rootFiles[r.log][j].kind = "row"
                    /\ rootFiles[r.log][j].alt_file = a

\* C5: of two completed real runs in a row with the same continuity setting,
\* the second deletes nothing, frees nothing and writes the header only.
C5_Idempotence ==
    \A i \in DOMAIN run :
        (/\ i + 1 \in DOMAIN run
         /\ run[i].status = "done" /\ ~run[i].dry
         /\ run[i + 1].status = "done" /\ ~run[i + 1].dry
         /\ run[i].cont = run[i + 1].cont)
        => /\ run[i + 1].deleted = {}
           /\ run[i + 1].freed = 0
           /\ run[i + 1].lines = <<Header>>

\* C6: a completed dry run and a completed real run with the same continuity
\* setting print the same total and wrote the same set of rows when they
\* started on the same generations, and so do a dry run and the real run
\* that follows it.
C6_DryRunFidelity ==
    \A i \in DOMAIN run : \A j \in DOMAIN run :
        (/\ run[i].status = "done" /\ run[i].dry
         /\ run[j].status = "done" /\ ~run[j].dry
         /\ run[i].cont = run[j].cont
         /\ \/ j = i + 1
            \/ run[i].dirs0 = run[j].dirs0 /\ run[i].files0 = run[j].files0)
        => /\ run[i].freed = run[j].freed
           /\ RowsOf(run[i]) = RowsOf(run[j])

C6_Witness ==
    \E i \in DOMAIN run :
        /\ i + 1 \in DOMAIN run
        /\ run[i].status = "done" /\ run[i].dry
        /\ run[i + 1].status = "done" /\ ~run[i + 1].dry
        /\ run[i].cont = run[i + 1].cont
        /\ run[i + 1].freed > 1
        /\ run[i + 1].freed = run[i].freed

\* C7: a dry run unlinks nothing, removes no directory and never calls the
\* reclaimer; while it is the last run, every generation is as it was at the
\* start and the working root differs by the run's own log at most.
C7_DryRunFrame ==
    \A i \in DOMAIN run :
        LET r == run[i] IN
        r.dry =>
            /\ r.deleted = {} /\ r.removed = {} /\ r.reclaimed = <<>>
            /\ i = Cur =>
                  /\ dirs = r.dirs0
                  /\ files = r.files0
                  /\ DOMAIN r.root0 \subseteq DOMAIN rootFiles
                  /\ DOMAIN rootFiles \subseteq DOMAIN r.root0 \cup {r.log}
                  /\ \A n \in DOMAIN r.root0 \ {r.log} :
                        rootFiles[n] = r.root0[n]

C7_Witness ==
    \E i \in DOMAIN run :
        LET r == run[i] IN
        /\ r.dry /\ r.status = "done" /\ i = Cur
        /\ RowsOf(r) # {}
        /\ r.log \in DOMAIN rootFiles /\ r.log \notin DOMAIN r.root0
        /\ \E g \in Range(r.older) :
              delete_empty_folders(dirs[g], files[g]).deleted # {}

\* C8: with continuity, the older backups a run has logged a candidate f
\* from lie in the longest gap-free run of backups, nearest first, that held
\* f with the master's size; a completed run has logged exactly these, and a
\* completed real run has deleted f from exactly these.
C8_ContinuityScan ==
    \A i \in DOMAIN run :
        LET r == run[i] IN
        (Started(r) /\ r.cont) =>
            \A f \in Candidates(r) :
                LET logged == {a.gen : a \in {b \in Logged(r) : b.file = f}}
                    gone == {a.gen : a \in {b \in r.deleted : b.file = f}}
                IN  /\ logged \subseteq LongestRun(r, f)
                    /\ gone \subseteq LongestRun(r, f)
                    /\ r.status = "done" => logged = LongestRun(r, f)
                    /\ (r.status = "done" /\ ~r.dry) => gone = LongestRun(r, f)

C8_Witness ==
    \E i \in DOMAIN run :
        LET r == run[i] IN
        /\ r.cont /\ r.status = "done" /\ ~r.dry /\ i = Cur
        /\ Len(r.older) >= 2
        /\ \E f \in Candidates(r) : Cardinality(LongestRun(r, f)) = 2
        /\ \E f \in Candidates(r) :
              /\ ~DupAtStart(r, r.older[1], f)
              /\ DupAtStart(r, r.older[2], f)
              /\ f \in DOMAIN files[r.older[2]]

\* C9: without continuity, a completed real run has deleted exactly the
\* candidates the older backups held with the master's size, and no older
\* backup of the run holds a candidate with the master's size any more.
C9_ExhaustiveScan ==
    \A i \in DOMAIN run :
        LET r == run[i] IN
        (~r.cont /\ ~r.dry /\ r.status = "done") =>
            /\ r.deleted =
                  {a \in {Alt(g, f) : g \in Range(r.older), f \in Candidates(r)} :
                      DupAtStart(r, a.gen, a.file)}
            /\ \A g \in Range(r.older) : \A f \in Candidates(r) :
                  f \in DOMAIN files[g] =>
                      files[g][f].st_size # files[r.master][f].st_size

C9_Witness ==
    \E i \in DOMAIN run :
        LET r == run[i] IN
        /\ ~r.cont /\ ~r.dry /\ r.status = "done"
        /\ Len(r.older) >= 2
        /\ \E f \in Candidates(r) :
              /\ ~DupAtStart(r, r.older[1], f)
              /\ Alt(r.older[2], f) \in r.deleted

\* C10 as stated: with continuity, when f is in G1 with the master's size
\* and absent from G2, the run never calls exists() or stat() on G2/f.
C10_G2NeverExamined ==
    \A i \in DOMAIN run :
        LET r == run[i] IN
        (r.cont /\ Len(r.older) >= 2) =>
            \A f \in Candidates(r) :
                (/\ DupAtStart(r, r.older[1], f)
                 /\ f \notin DOMAIN r.files0[r.older[2]])
                => Alt(r.older[2], f) \notin r.examined \cup r.statted

\* C10 as amended: when f is absent from G1 or has another size there, a run
\* with continuity never calls exists() or stat() on G2/f; a completed run
\* without continuity has checked G2/f and, if it had the master's size,
\* logged it and (a real run) deleted it.
C10_ShortCircuit ==
    \A i \in DOMAIN run :
        LET r == run[i] IN
        (Started(r) /\ Len(r.older) >= 2) =>
            \A f \in Candidates(r) :
                ~DupAtStart(r, r.older[1], f) =>
                    LET g2 == Alt(r.older[2], f) IN
                    /\ r.cont => g2 \notin r.examined \cup r.statted
                    /\ (~r.cont /\ r.status = "done") =>
                          /\ g2 \in r.examined
                          /\ DupAtStart(r, r.older[2], f) =>
                                /\ g2 \in Logged(r)
                                /\ ~r.dry => g2 \in r.deleted

C10_Witness ==
    \E i \in DOMAIN run :
        LET r == run[i] IN
        /\ r.cont /\ r.status = "done" /\ i = Cur
        /\ Len(r.older) >= 2
        /\ \E f \in Candidates(r) :
              /\ Alt(r.older[1], f) \in r.examined
              /\ ~DupAtStart(r, r.older[1], f)
              /\ DupAtStart(r, r.older[2], f)
              /\ Alt(r.older[2], f) \notin r.examined

\* What an uninterrupted real run of the history r deletes, and the files it
\* leaves.
ExpectedDeleted(r) ==
    {a \in {Alt(g, f) : g \in Range(r.older), f \in Candidates(r)} :
        IF r.cont THEN a.gen \in LongestRun(r, a.file)
                  ELSE DupAtStart(r, a.gen, a.file)}
ExpectedFiles(r) ==
    [g \in Gens |->
        [f \in {x \in DOMAIN r.files0[g] : Alt(g, x) \notin ExpectedDeleted(r)}
            |-> r.files0[g][f]]]

\* the uninterrupted real run leaves ExpectedFiles
C11_Baseline ==
    (Cur = 1 /\ run # <<>> /\ run[1].status = "done" /\ ~run[1].dry)
        => files = ExpectedFiles(run[1])

\* C11: a real run killed at any point and run again with the same settings
\* to its end leaves the files an uninterrupted run leaves.
C11_Resumability ==
    (/\ Len(run) = 2
     /\ run[1].status = "crashed" /\ Started(run[1]) /\ ~run[1].dry
     /\ run[2].status = "done" /\ ~run[2].dry /\ run[2].cont = run[1].cont)
        => files = ExpectedFiles(run[1])

\* the same without the continuity assumption
C11_ResumeExhaustive ==
    (/\ Len(run) = 2
     /\ run[1].status = "crashed" /\ Started(run[1]) /\ ~run[1].dry
     /\ ~run[1].cont
     /\ run[2].status = "done" /\ ~run[2].dry /\ ~run[2].cont)
        => files = ExpectedFiles(run[1])

\* The tree delete_empty_folders was called on for generation g in the run
\* r, the last of the history: no other step of a run touches a directory,
\* and no file goes once the reclaimer has started.
IsPrefix(x, y) == Len(x) <= Len(y) /\ SubSeq(y, 1, Len(x)) = x
FileFree(fs, x) == \A f \in DOMAIN fs : ~IsPrefix(x, f.dir)
RemovedIn(r, g) == {m.dir : m \in {n \in r.removed : n.gen = g}}
RealDone(r) == Started(r) /\ ~r.dry /\ r.status = "done"

\* C12: at the end of a real run, an older generation all of whose files
\* were deleted has no directory left, its root included, and every file an
\* older generation keeps still has all its ancestor directories up to the
\* generation root.
C12_ReclamationOutcome ==
    (run # <<>> /\ RealDone(run[Cur])) =>
        \A g \in Range(run[Cur].older) :
            /\ (\A f \in DOMAIN run[Cur].files0[g] : Alt(g, f) \in run[Cur].deleted)
                   => dirs[g] = {}
            /\ \A f \in DOMAIN files[g] :
                   \A k \in 0..Len(f.dir) : SubSeq(f.dir, 1, k) \in dirs[g]

\* a real run ended with an older generation gone whole, its files all
\* deleted, and another that lost d/b.JPG and the directory h and keeps
\* d/e/c.png with d/e, d and the root
C12_Witness ==
    /\ run # <<>> /\ RealDone(run[Cur])
    /\ \E g \in Range(run[Cur].older) :
          /\ run[Cur].files0[g] # << >>
          /\ \A f \in DOMAIN run[Cur].files0[g] : Alt(g, f) \in run[Cur].deleted
          /\ dirs[g] = {}
    /\ \E g \in Range(run[Cur].older) :
          /\ fE \in DOMAIN files[g]
          /\ Alt(g, fB) \in run[Cur].deleted
          /\ <<"h">> \in run[Cur].dirs0[g]
          /\ dirs[g] = {<<>>, <<"d">>, <<"d", "e">>}

\* C15: each call of delete_empty_folders that returned removed exactly the
\* directories whose subtree holds no file, each once and after every
\* directory below it, left the others, and returned the set it removed.
C15_ReclamationFixpoint ==
    (run # <<>> /\ Started(run[Cur])) =>
        LET r == run[Cur] IN
        /\ pc \in {"print", "idle"} /\ ~r.dry /\ r.status # "crashed"
              => Len(r.returned) = Len(r.older)
        /\ \A k \in DOMAIN r.returned :
              LET g == r.reclaimed[k]
                  gone == {x \in r.dirs0[g] : FileFree(files[g], x)}
                  at == {p \in DOMAIN r.rmdirs : r.rmdirs[p].gen = g}
              IN  /\ RemovedIn(r, g) = gone
                  /\ dirs[g] = r.dirs0[g] \ gone
                  /\ r.returned[k] = gone
                  /\ {r.rmdirs[p].dir : p \in at} = gone
                  /\ \A p, q \in at :
                        /\ r.rmdirs[p].dir = r.rmdirs[q].dir => p = q
                        /\ (r.rmdirs[p].dir # r.rmdirs[q].dir
                             /\ IsPrefix(r.rmdirs[q].dir, r.rmdirs[p].dir)) => p < q

\* a call removed d/e, h, d and the root of a generation that had held
\* d/e/c.png, and the call before it left a root that keeps a.jpg
C15_Witness ==
    /\ run # <<>> /\ Started(run[Cur])
    /\ \E k \in DOMAIN run[Cur].returned :
          /\ run[Cur].returned[k] = DeepDirPaths
          /\ Alt(run[Cur].reclaimed[k], fE) \in run[Cur].deleted
          /\ run[Cur].rmdirs[Len(run[Cur].rmdirs)].dir = <<>>
    /\ \E k \in DOMAIN run[Cur].returned :
          /\ run[Cur].returned[k] = {}
          /\ fA \in DOMAIN files[run[Cur].reclaimed[k]]

\* C16: the emptiness assertion holds in every call of delete_empty_folders:
\* no call ends on it, and the call about to be made will not.
C16_AssertionHolds ==
    /\ \A i \in DOMAIN run :
          Started(run[i]) =>
             /\ run[i].status # "failed"
             /\ Len(run[i].returned) = Len(run[i].reclaimed)
    /\ pc = "reclaim" =>
          delete_empty_folders(dirs[older_backups[bi]], files[older_backups[bi]]).ok

\* the reclaimer has returned from a tree with a file in a directory without
\* subdirectories, and from a tree with a directory to remove
C16_Witness ==
    /\ run # <<>> /\ Started(run[Cur])
    /\ \E k \in DOMAIN run[Cur].returned :
          LET g == run[Cur].reclaimed[k]
          IN  /\ fE \in DOMAIN files[g]
              /\ <<"h">> \in run[Cur].returned[k]

\* The tree a finished run of the history left: the tree now, or the tree
\* the next run started on.
DirsAfter(i) == IF i = Cur THEN dirs ELSE run[i + 1].dirs0
FilesAfter(i) == IF i = Cur THEN files ELSE run[i + 1].files0
RootAfter(i) == IF i = Cur THEN rootFiles ELSE run[i + 1].root0

\* C13: a run that finds at the working root a regular file whose name does
\* not end in ".log.csv" fails before anything else: it has no master, wrote
\* no line, called no delete and no rmdir, and the directories, the files
\* and the entries of the root (no new log among them) are as it found them.
C13_ConfigErrorAborts ==
    \A i \in DOMAIN run :
        (\E n \in DOMAIN run[i].root0 : ~EndsWithLogCsv(n)) =>
            /\ run[i].status = "failed" /\ ~Started(run[i])
            /\ run[i].lines = <<>> /\ run[i].called = {}
            /\ run[i].deleted = {}
            /\ run[i].reclaimed = <<>> /\ run[i].rmdirs = <<>>
            /\ run[i].removed = {}
            /\ DirsAfter(i) = run[i].dirs0
            /\ FilesAfter(i) = run[i].files0
            /\ RootAfter(i) = run[i].root0

\* a run failed on notes.txt with a duplicate of a.jpg in an older generation
C13_Witness ==
    \E i \in DOMAIN run :
        /\ StrayName \in DOMAIN run[i].root0
        /\ run[i].status = "failed"
        /\ \E g \in 1..(NGen - 1) :
              /\ fA \in DOMAIN files[g]
              /\ files[g][fA].st_size = files[NGen][fA].st_size

\* C14: on a root that held generation directories only, every run, after
\* any runs that left their logs there, starts, takes the newest generation
\* directory as master and the other generation directories, newest first,
\* as older backups, and does not fail.
C14_LogsNeverGenerations ==
    (run # <<>> /\ DOMAIN run[1].root0 = {}) =>
        \A i \in DOMAIN run :
            LET r == run[i]
                gens == {g \in Gens : r.dirs0[g] # {}}
            IN  /\ \A n \in DOMAIN r.root0 : EndsWithLogCsv(n)
                /\ Started(r) /\ r.status # "failed"
                /\ r.master = NewestGen(r.dirs0)
                /\ Range(r.older) = gens \ {r.master}
                /\ Len(r.older) = Cardinality(gens) - 1
                /\ \A k \in 1..(Len(r.older) - 1) : r.older[k] > r.older[k + 1]

\* a second run completed on a root that holds the log of the first
C14_Witness ==
    /\ Len(run) = 2
    /\ DOMAIN run[1].root0 = {}
    /\ DOMAIN run[2].root0 # {}
    /\ run[2].status = "done"
    /\ Len(run[2].older) = NGen - 1

\* C17 as stated: while a run is under way, bytes_freed is the sum of the
\* sizes of the older files delete() has returned for.
C17_FreedAtEveryPoint ==
    pc \notin {"idle", "crashed"} =>
        bytes_freed = SizeSum(run[Cur], run[Cur].called)

\* C17: while a run is under way, bytes_freed is the sum of the sizes of the
\* older files whose row was written, delete() returned and size was added
\* (between the return of delete and the addition of line 84 it is short of
\* the last file); the total a run prints is the sum over the rows of its
\* log, 0 without a row, and in a real run the sum over the files unlinked.
C17_FreedBytes ==
    /\ pc \notin {"idle", "crashed"} =>
          LET r == run[Cur]
              pending == IF pc = "account"
                         THEN {Alt(older_backups[bi], file)} ELSE {}
          IN  /\ r.called \subseteq Logged(r)
              /\ bytes_freed = SizeSum(r, r.called \ pending)
    /\ \A i \in DOMAIN run :
          run[i].status = "done" =>
             /\ run[i].freed = SizeSum(run[i], Logged(run[i]))
             /\ Logged(run[i]) = {} => run[i].freed = 0
             /\ ~run[i].dry => run[i].freed = SizeSum(run[i], run[i].deleted)

\* a real run printed the size of two files of different sizes it deleted
C17_Witness ==
    \E i \in DOMAIN run :
        /\ run[i].status = "done" /\ ~run[i].dry
        /\ Cardinality(run[i].deleted) = 2
        /\ run[i].freed = MaxSize + 1

\* The place of an older backup in the scan order of the run r.
ScanPos(r, g) == CHOOSE k \in DOMAIN r.older : r.older[k] = g

\* C18: the lines written by a run are the header, once, and then rows only;
\* no two rows name the same older file; the rows are the duplicates found
\* among the pairs examined, those of one candidate together and nearest
\* backup first; a run that ended left exactly these lines in its log.
C18_LogShape ==
    \A i \in DOMAIN run :
        Started(run[i]) =>
            LET r == run[i]
                rows == 2..Len(r.lines)
            IN  /\ r.lines # <<>> /\ r.lines[1] = Header
                /\ \A k \in rows : r.lines[k].kind = "row"
                /\ \A k, m \in rows :
                      r.lines[k].alt_file = r.lines[m].alt_file => k = m
                /\ \A k \in rows :
                      /\ r.lines[k].alt_file \in r.statted
                      /\ DupAtStart(r, r.lines[k].alt_file.gen,
                                       r.lines[k].alt_file.file)
                /\ \A k, m \in rows :
                      (k < m /\ r.lines[k].alt_file.file = r.lines[m].alt_file.file)
                         => /\ ScanPos(r, r.lines[k].alt_file.gen)
                                 < ScanPos(r, r.lines[m].alt_file.gen)
                            /\ \A j \in k..m : r.lines[j].alt_file.file
                                                   = r.lines[k].alt_file.file
                /\ r.status = "done" =>
                      {a \in r.examined : DupAtStart(r, a.gen, a.file)} = Logged(r)
                /\ (r.status = "done" /\ i = Cur) => rootFiles[r.log] = r.lines

\* a dry run ended with a log of the header and three rows, two of them for
\* one candidate
C18_Witness ==
    /\ run # <<>>
    /\ run[Cur].status = "done" /\ run[Cur].dry
    /\ Len(run[Cur].lines) = 4
    /\ rootFiles[run[Cur].log] = run[Cur].lines
    /\ run[Cur].lines[2].alt_file.file = run[Cur].lines[3].alt_file.file

\* C19: a real run that ended removed the root of every older generation
\* left without a file, and the directory is gone; no later run has that
\* generation as master or older backup; the root of the master was not
\* removed.
C19_GenerationRootRemoval ==
    \A i \in DOMAIN run :
        RealDone(run[i]) =>
            /\ \A g \in Range(run[i].older) :
                  /\ FilesAfter(i)[g] = << >> =>
                        /\ [gen |-> g, dir |-> <<>>] \in run[i].removed
                        /\ DirsAfter(i)[g] = {}
                  /\ [gen |-> g, dir |-> <<>>] \in run[i].removed =>
                        \A j \in DOMAIN run :
                            j > i => /\ run[j].master # g
                                     /\ g \notin Range(run[j].older)
            /\ [gen |-> run[i].master, dir |-> <<>>] \notin run[i].removed
            /\ <<>> \in DirsAfter(i)[run[i].master]

\* a real run removed the root of an older generation and the next run ended
\* with one older backup less
C19_Witness ==
    /\ Len(run) = 2
    /\ RealDone(run[1])
    /\ \E g \in Range(run[1].older) : [gen |-> g, dir |-> <<>>] \in run[1].removed
    /\ run[2].status = "done"
    /\ Len(run[2].older) = Len(run[1].older) - 1

====
